---- MODULE Spec2Model ----
(***************************************************************************)
(* The three operational scripts of the repository as one state machine:   *)
(*   get_fsx_ontap_ips.py               (script = "selector")              *)
(*   lun_grow.py                        (script = "lun_grow")              *)
(*   ontap_cluster_svm_peering_rest.py  (script = "peering")               *)
(* A behaviour is one run of one script.  Remote calls answer              *)
(* nondeterministically; every call issued is appended to log.             *)
(***************************************************************************)
EXTENDS Integers, Sequences, FiniteSets, TLC

VARIABLES
    script,                   \* which script this run executes
    pc,                       \* position in the script
    exitStatus,               \* process exit status, Running until the process ends
    log,                      \* remote calls issued so far: [call, ok]
    errorsReported,           \* number of error diagnostics printed
    file_systems,             \* selector: tag-filtered candidates
    iops_values,              \* selector: per-candidate TotalIops
    capacity_percent_values,  \* selector: per-candidate capacity utilization
    max_iops,                 \* selector: normalization divisors
    max_capacity_percent,
    lowest_score,             \* selector: running minimum of the scoring loop
    selected_fs_id,
    selected_iops,
    selected_capacity_percent,
    fault,                    \* uncaught Python exception, "none" if none
    fileWrites,               \* selector: number of writes of OUTPUT_FILE
    size,                     \* lun_grow: --size argument
    volume_size,              \* lun_grow: result of calculate_sizes
    lun_size,
    volPatch,                 \* lun_grow: size sent in the volume PATCH
    lunPatch                  \* lun_grow: size sent in the LUN PATCH

vars == <<script, pc, exitStatus, log, errorsReported, file_systems, iops_values,
          capacity_percent_values, max_iops, max_capacity_percent, lowest_score,
          selected_fs_id, selected_iops, selected_capacity_percent, fault,
          fileWrites, size, volume_size, lun_size, volPatch, lunPatch>>

selectorVars == <<file_systems, iops_values, capacity_percent_values, max_iops,
                  max_capacity_percent, lowest_score, selected_fs_id,
                  selected_iops, selected_capacity_percent, fileWrites>>

lunVars == <<size, volume_size, lun_size, volPatch, lunPatch>>

(***************************************************************************)
(* Bounds of the model.                                                    *)
(***************************************************************************)
MaxCands == 2       \* longest candidate list returned by the listing call
MaxCap == 1         \* largest consumed / total capacity of a candidate
MaxSize == 1000     \* largest small --size argument
MaxBigOffset == 3   \* number of --size arguments tried above BigSizeBase

(***************************************************************************)
(* Python values.                                                          *)
(***************************************************************************)
None == "None"
Unset == <<>>      \* a number or list not assigned yet
Running == "running"   \* exitStatus while the process has not ended

(***************************************************************************)
(* Exact rationals <<numerator, denominator>> in lowest terms stand for    *)
(* the floats of the selector; <<1, 0>> is float('inf').                   *)
(***************************************************************************)
RECURSIVE GCD(_, _)
GCD(a, b) == IF b = 0 THEN a ELSE GCD(b, a % b)

RNorm(r) ==
    IF r[2] = 0 THEN <<1, 0>>
    ELSE IF r[1] = 0 THEN <<0, 1>>
    ELSE LET g == GCD(r[1], r[2]) IN <<r[1] \div g, r[2] \div g>>

RInt(n) == <<n, 1>>
RMul(a, b) == RNorm(<<a[1] * b[1], a[2] * b[2]>>)
RDiv(a, b) == RNorm(<<a[1] * b[2], a[2] * b[1]>>)
RAdd(a, b) == RNorm(<<a[1] * b[2] + b[1] * a[2], a[2] * b[2]>>)
RLt(a, b) == a[1] * b[2] < b[1] * a[2]
RLe(a, b) == a[1] * b[2] <= b[1] * a[2]
RMax2(a, b) == IF RLt(a, b) THEN b ELSE a

\* Python's max(list): the first maximal element
RECURSIVE RMaxSeq(_)
RMaxSeq(s) ==
    IF Len(s) = 1 THEN s[1]
    ELSE LET m == RMaxSeq(SubSeq(s, 1, Len(s) - 1))
         IN  IF RLt(m, s[Len(s)]) THEN s[Len(s)] ELSE m

Inf == <<1, 0>>

(***************************************************************************)
(* Python ints are unbounded and a --size of a petabyte does not fit a     *)
(* machine word, so byte counts are naturals written as little-endian      *)
(* sequences of limbs below LimbBase, without leading zero limbs           *)
(* (zero is <<>>).                                                         *)
(***************************************************************************)
LimbBits == 15
LimbBase == 2^LimbBits

RECURSIVE BTrim(_)
BTrim(a) ==
    IF a = <<>> THEN <<>>
    ELSE IF a[Len(a)] = 0 THEN BTrim(SubSeq(a, 1, Len(a) - 1))
    ELSE a

RECURSIVE BFromNat(_)
BFromNat(n) ==
    IF n = 0 THEN <<>> ELSE <<n % LimbBase>> \o BFromNat(n \div LimbBase)

RECURSIVE BAddC(_, _, _)
BAddC(a, b, c) ==
    IF a = <<>> /\ b = <<>> THEN (IF c = 0 THEN <<>> ELSE <<c>>)
    ELSE LET x == IF a = <<>> THEN 0 ELSE a[1]
             y == IF b = <<>> THEN 0 ELSE b[1]
             s == x + y + c
         IN  <<s % LimbBase>>
             \o BAddC(IF a = <<>> THEN <<>> ELSE Tail(a),
                      IF b = <<>> THEN <<>> ELSE Tail(b), s \div LimbBase)

BAdd(a, b) == BTrim(BAddC(a, b, 0))

RECURSIVE BMulSmallC(_, _, _)
BMulSmallC(a, m, c) ==
    IF a = <<>> THEN (IF c = 0 THEN <<>> ELSE <<c>>)
    ELSE LET p == a[1] * m + c
         IN  <<p % LimbBase>> \o BMulSmallC(Tail(a), m, p \div LimbBase)

BMulSmall(a, m) == BTrim(BMulSmallC(a, m, 0))

RECURSIVE BMul(_, _)
BMul(a, b) ==
    IF a = <<>> \/ b = <<>> THEN <<>>
    ELSE LET rest == BMul(a, Tail(b))
         IN  BAdd(BMulSmall(a, b[1]), IF rest = <<>> THEN <<>> ELSE <<0>> \o rest)

RECURSIVE BitLenSmall(_)
BitLenSmall(n) == IF n = 0 THEN 0 ELSE 1 + BitLenSmall(n \div 2)

BBitLen(a) ==
    IF a = <<>> THEN 0 ELSE LimbBits * (Len(a) - 1) + BitLenSmall(a[Len(a)])

\* a * 2^k
BShl(a, k) ==
    IF a = <<>> THEN <<>>
    ELSE [i \in 1..(k \div LimbBits) |-> 0] \o BMulSmall(a, 2^(k % LimbBits))

\* floor(a / 2^k)
BShr(a, k) ==
    LET q == k \div LimbBits
        r == k % LimbBits
        d == IF q >= Len(a) THEN <<>> ELSE SubSeq(a, q + 1, Len(a))
    IN  BTrim([i \in 1..Len(d) |->
                 (d[i] \div 2^r)
                 + (IF i < Len(d) THEN (d[i + 1] % 2^r) * 2^(LimbBits - r) ELSE 0)])

\* a mod 2^k
BLow(a, k) ==
    LET q == k \div LimbBits
        r == k % LimbBits
    IN  IF q >= Len(a) THEN a
        ELSE BTrim(SubSeq(a, 1, q) \o <<a[q + 1] % 2^r>>)

\* -1, 0, 1 as a < b, a = b, a > b
RECURSIVE BCmp(_, _)
BCmp(a, b) ==
    IF Len(a) # Len(b) THEN (IF Len(a) < Len(b) THEN -1 ELSE 1)
    ELSE IF a = <<>> THEN 0
    ELSE IF a[Len(a)] # b[Len(b)] THEN (IF a[Len(a)] < b[Len(b)] THEN -1 ELSE 1)
    ELSE BCmp(SubSeq(a, 1, Len(a) - 1), SubSeq(b, 1, Len(b) - 1))

\* floor(a / d) for 0 < d < LimbBase, limbs i..1 with remainder rem carried in
RECURSIVE BDivSmallFrom(_, _, _, _)
BDivSmallFrom(a, d, i, rem) ==
    IF i = 0 THEN <<>>
    ELSE LET cur == rem * LimbBase + a[i]
         IN  BDivSmallFrom(a, d, i - 1, cur % d) \o <<cur \div d>>

BDivSmall(a, d) == BTrim(BDivSmallFrom(a, d, Len(a), 0))

(***************************************************************************)
(* IEEE-754 binary64 as Python's float: a finite non-negative double is    *)
(* <<m, e>>, the value m * 2^e with m < 2^53 or m = 2^53.  Every           *)
(* operation rounds to nearest, ties to even.  Exponent overflow and       *)
(* subnormals are out of the range of a byte count times 0.95.             *)
(***************************************************************************)
DoubleMantissaBits == 53

RoundToDouble(m, e) ==
    IF BBitLen(m) <= DoubleMantissaBits THEN <<m, e>>
    ELSE LET s    == BBitLen(m) - DoubleMantissaBits
             r    == BShr(m, s)
             rem  == BLow(m, s)
             half == BShl(<<1>>, s - 1)
             c    == BCmp(rem, half)
             odd  == r # <<>> /\ r[1] % 2 = 1
             up   == c = 1 \/ (c = 0 /\ odd)
         IN  <<IF up THEN BAdd(r, <<1>>) ELSE r, e + s>>

\* float(n) for a Python int n
IntToFloat(n) == RoundToDouble(n, 0)

\* x * y on floats
FloatMul(x, y) == RoundToDouble(BMul(x[1], y[1]), x[2] + y[2])

\* int(x) for a float x >= 0: truncation
FloatToInt(x) == IF x[2] >= 0 THEN BShl(x[1], x[2]) ELSE BShr(x[1], -x[2])

\* the literal 0.95 = 0x1.e666666666666p-1 = 8556839292003942 * 2^-53
PointNineFive == <<<<26214, 19660, 6553, 243>>, -53>>

\* lun_grow.py calculate_sizes: <<volume_size, lun_size>>
calculate_sizes(vs) == <<vs, FloatToInt(FloatMul(IntToFloat(vs), PointNineFive))>>

\* the real number floor(0.95 * n) = (95 * n) div 100
Floor95(n) == BDivSmall(BMulSmall(n, 95), 100)

(***************************************************************************)
(* get_fsx_ontap_ips.py                                                    *)
(***************************************************************************)
SVM_NAME == "SVM1"
IOPS_WEIGHT == <<1, 2>>       \* 0.5
CAPACITY_WEIGHT == <<1, 2>>   \* 0.5

\* FileSystemId of the i-th file system of a listing: ids are distinct
FsId(i) == "fs-" \o ToString(i)

\* capacity figures the listing call may report for one file system
CapPairs == (0..MaxCap) \X (0..MaxCap)

\* file_systems after the tag filter of lines 31-39
CandidateLists ==
    UNION {
      { [i \in 1..n |-> [FileSystemId            |-> FsId(i),
                         ConsumedStorageCapacity |-> c[i][1],
                         StorageCapacity         |-> c[i][2]]]
        : c \in [1..n -> CapPairs] }
      : n \in 0..MaxCands }

\* the Average of a returned datapoint
IopsVals == {<<0, 1>>, <<1, 2>>, <<2, 1>>}

\* answers of cloudwatch get_metric_statistics
MetricResponses ==
    {[error |-> TRUE, Datapoints |-> <<>>]}
    \cup {[error |-> FALSE, Datapoints |-> d] : d \in {<<>>} \cup {<<v>> : v \in IopsVals}}

Call(name, ok) == [call |-> name, ok |-> ok]

\* line 82
CapacityPercent(consumed, total) ==
    IF total # 0 THEN RMul(RDiv(RInt(consumed), RInt(total)), RInt(100)) ELSE RInt(0)

\* FloorAtOne without the floor: the maximum used as it is
NoFloor(m) == m

\* lines 88-89: max(m, 1)
FloorAtOne(m) == RMax2(m, RInt(1))

\* Score with the capacity term subtracted instead of added
ScoreCapacitySubtracted(iops, capacity_percent, mi, mc) ==
    RAdd(RMul(IOPS_WEIGHT, RDiv(iops, mi)),
         RMul(<<-1, 2>>, RDiv(capacity_percent, mc)))

\* lines 98-102
Score(iops, capacity_percent, mi, mc) ==
    RAdd(RMul(IOPS_WEIGHT, RDiv(iops, mi)),
         RMul(CAPACITY_WEIGHT, RDiv(capacity_percent, mc)))

\* ScoreLower comparing with > : the scan looks for the highest score
ScoreHigher(score, lowest) == RLt(lowest, score)

\* ScoreLower comparing with <= : a later candidate replaces an equal earlier one
ScoreLowerOrEqual(score, lowest) == RLe(score, lowest)

\* line 105
ScoreLower(score, lowest) == RLt(score, lowest)

\* one iteration of the loop of lines 92-109 on the loop state st
EvalStep(st, i, fss, iops, caps, mi, mc) ==
    LET score == Score(iops[i], caps[i], mi, mc)
    IN  IF ScoreLower(score, st.lowest_score)
        THEN [lowest_score              |-> score,
              selected_fs_id            |-> fss[i].FileSystemId,
              selected_iops             |-> iops[i],
              selected_capacity_percent |-> caps[i]]
        ELSE st

\* iterations i .. len(file_systems) of the loop of lines 92-109
RECURSIVE Evaluate(_, _, _, _, _, _, _)
Evaluate(st, i, fss, iops, caps, mi, mc) ==
    IF i > Len(fss) THEN st
    ELSE Evaluate(EvalStep(st, i, fss, iops, caps, mi, mc), i + 1, fss, iops, caps, mi, mc)

\* exit(status)
Exit(status) == pc' = "exit" /\ exitStatus' = status

\* Step 1, lines 26-42
ListFileSystems ==
    /\ script = "selector" /\ pc = "list"
    /\ \/ /\ log' = Append(log, Call("describe_file_systems", FALSE))
          /\ errorsReported' = errorsReported + 1
          /\ Exit(1)
          /\ UNCHANGED file_systems
       \/ /\ \E fss \in CandidateLists : file_systems' = fss
          /\ log' = Append(log, Call("describe_file_systems", TRUE))
          /\ pc' = "check_candidates"
          /\ UNCHANGED <<errorsReported, exitStatus>>
    /\ UNCHANGED <<script, iops_values, capacity_percent_values, max_iops,
                   max_capacity_percent, lowest_score, selected_fs_id, selected_iops,
                   selected_capacity_percent, fault, fileWrites, lunVars>>

\* CheckCandidates without the guard of lines 44-46
CheckCandidatesNoGuard ==
    /\ script = "selector" /\ pc = "check_candidates"
    /\ lowest_score' = Inf
    /\ selected_fs_id' = None
    /\ selected_iops' = RInt(0)
    /\ selected_capacity_percent' = RInt(0)
    /\ iops_values' = <<>>
    /\ capacity_percent_values' = <<>>
    /\ pc' = IF Len(file_systems) = 0 THEN "normalize" ELSE "metrics"
    /\ UNCHANGED <<script, log, errorsReported, exitStatus, file_systems, max_iops,
                   max_capacity_percent, fault, fileWrites, lunVars>>

\* lines 44-57
CheckCandidates ==
    /\ script = "selector" /\ pc = "check_candidates"
    /\ IF file_systems = <<>>
       THEN /\ errorsReported' = errorsReported + 1
            /\ Exit(1)
            /\ UNCHANGED <<lowest_score, selected_fs_id, selected_iops,
                           selected_capacity_percent, iops_values,
                           capacity_percent_values>>
       ELSE /\ lowest_score' = Inf
            /\ selected_fs_id' = None
            /\ selected_iops' = RInt(0)
            /\ selected_capacity_percent' = RInt(0)
            /\ iops_values' = <<>>
            /\ capacity_percent_values' = <<>>
            /\ pc' = IF Len(file_systems) = 0 THEN "normalize" ELSE "metrics"
            /\ UNCHANGED <<errorsReported, exitStatus>>
    /\ UNCHANGED <<script, log, file_systems, max_iops, max_capacity_percent, fault,
                   fileWrites, lunVars>>

\* one iteration of the loop of lines 59-83
QueryMetrics ==
    /\ script = "selector" /\ pc = "metrics"
    /\ \E resp \in MetricResponses :
         LET i    == Len(iops_values) + 1
             fs   == file_systems[i]
             iops == IF resp.error THEN RInt(0)
                     ELSE IF resp.Datapoints # <<>> THEN resp.Datapoints[1] ELSE RInt(0)
         IN  /\ log' = Append(log, Call("get_metric_statistics", ~resp.error))
             /\ errorsReported' = errorsReported + (IF resp.error THEN 1 ELSE 0)
             /\ iops_values' = Append(iops_values, iops)
             /\ capacity_percent_values' =
                  Append(capacity_percent_values,
                         CapacityPercent(fs.ConsumedStorageCapacity, fs.StorageCapacity))
             /\ pc' = IF i = Len(file_systems) THEN "normalize" ELSE "metrics"
    /\ UNCHANGED <<script, exitStatus, file_systems, max_iops, max_capacity_percent,
                   lowest_score, selected_fs_id, selected_iops,
                   selected_capacity_percent, fault, fileWrites, lunVars>>

\* lines 85-109
SelectLeastUtilized ==
    /\ script = "selector" /\ pc = "normalize"
    /\ LET mi == FloorAtOne(IF iops_values # <<>> THEN RMaxSeq(iops_values) ELSE RInt(1))
           mc == FloorAtOne(IF capacity_percent_values # <<>>
                            THEN RMaxSeq(capacity_percent_values) ELSE RInt(1))
       IN  /\ max_iops' = mi
           /\ max_capacity_percent' = mc
           /\ IF file_systems # <<>> /\ (mi[1] = 0 \/ mc[1] = 0)
              THEN \* float division by zero at line 98 or 99
                   /\ fault' = "ZeroDivisionError"
                   /\ Exit(1)
                   /\ UNCHANGED <<lowest_score, selected_fs_id, selected_iops,
                                  selected_capacity_percent>>
              ELSE LET st == Evaluate([lowest_score              |-> lowest_score,
                                       selected_fs_id            |-> selected_fs_id,
                                       selected_iops             |-> selected_iops,
                                       selected_capacity_percent |-> selected_capacity_percent],
                                      1, file_systems, iops_values,
                                      capacity_percent_values, mi, mc)
                   IN  /\ lowest_score' = st.lowest_score
                       /\ selected_fs_id' = st.selected_fs_id
                       /\ selected_iops' = st.selected_iops
                       /\ selected_capacity_percent' = st.selected_capacity_percent
                       /\ pc' = "check_selected"
                       /\ UNCHANGED <<fault, exitStatus>>
    /\ UNCHANGED <<script, log, errorsReported, file_systems, iops_values,
                   capacity_percent_values, fileWrites, lunVars>>

\* lines 111-115
CheckSelected ==
    /\ script = "selector" /\ pc = "check_selected"
    /\ IF selected_fs_id = None \/ selected_fs_id = ""
       THEN errorsReported' = errorsReported + 1 /\ Exit(1)
       ELSE pc' = "describe_svm" /\ UNCHANGED <<errorsReported, exitStatus>>
    /\ UNCHANGED <<script, log, fault, selectorVars, lunVars>>

\* answers of describe_storage_virtual_machines: its StorageVirtualMachines
SvmResponses == {<<>>, <<[Name |-> SVM_NAME]>>, <<[Name |-> "other"]>>}

\* Step 3, lines 117-133
DescribeSVM ==
    /\ script = "selector" /\ pc = "describe_svm"
    /\ \/ /\ log' = Append(log, Call("describe_storage_virtual_machines", FALSE))
          /\ errorsReported' = errorsReported + 1
          /\ Exit(1)
       \/ \E svms \in SvmResponses :
            \* svm_details is svms[1], or None when svms is empty
            /\ log' = Append(log, Call("describe_storage_virtual_machines", TRUE))
            /\ IF svms = <<>> \/ svms[1].Name # SVM_NAME
               THEN errorsReported' = errorsReported + 1 /\ Exit(1)
               ELSE pc' = "extract_ips" /\ UNCHANGED <<errorsReported, exitStatus>>
    /\ UNCHANGED <<script, fault, selectorVars, lunVars>>

\* Step 4, lines 135-143
ExtractIPs ==
    /\ script = "selector" /\ pc = "extract_ips"
    /\ \/ /\ log' = Append(log, Call("describe_file_systems", FALSE))
          /\ errorsReported' = errorsReported + 1
          /\ Exit(1)
       \/ /\ log' = Append(log, Call("describe_file_systems", TRUE))
          /\ pc' = "write_report"
          /\ UNCHANGED <<errorsReported, exitStatus>>
    /\ UNCHANGED <<script, fault, selectorVars, lunVars>>

\* Step 5, lines 145-158, and the normal end of the script
WriteReport ==
    /\ script = "selector" /\ pc = "write_report"
    /\ fileWrites' = fileWrites + 1
    /\ pc' = "done"
    /\ exitStatus' = 0
    /\ UNCHANGED <<script, log, errorsReported, fault, file_systems, iops_values,
                   capacity_percent_values, max_iops, max_capacity_percent,
                   lowest_score, selected_fs_id, selected_iops,
                   selected_capacity_percent, lunVars>>

(***************************************************************************)
(* lun_grow.py                                                             *)
(***************************************************************************)
\* 1200000000000000 bytes
BigSizeBase == <<0, 2934, 3475, 34>>

\* values of --size
Sizes ==
    {BFromNat(n) : n \in 0..MaxSize}
    \cup {BAdd(BigSizeBase, BFromNat(k)) : k \in 0..MaxBigOffset}

\* what requests.request / raise_for_status do in send_request
RestOutcomes == {"ok", "HTTPError", "RequestException"}

\* "records" of a GET answer
RecordLists == {<<>>, <<[uuid |-> "uuid-1"]>>}

\* line 82
CalculateSizes ==
    /\ script = "lun_grow" /\ pc = "calculate"
    /\ volume_size' = calculate_sizes(size)[1]
    /\ lun_size' = calculate_sizes(size)[2]
    /\ pc' = "get_volume"
    /\ UNCHANGED <<script, exitStatus, log, errorsReported, fault, selectorVars,
                   size, volPatch, lunPatch>>

\* get_volume / get_lun: send_request("GET", ...) and the records check
GetRecord(call, next) ==
    /\ \E outcome \in RestOutcomes, records \in RecordLists :
         /\ log' = Append(log, Call(call, outcome = "ok"))
         /\ IF outcome = "ok" /\ records # <<>>
            THEN pc' = next /\ UNCHANGED <<errorsReported, exitStatus>>
            ELSE errorsReported' = errorsReported + 1 /\ Exit(1)
    /\ UNCHANGED <<script, fault, selectorVars, lunVars>>

\* lines 38, 28-35
GetVolume ==
    /\ script = "lun_grow" /\ pc = "get_volume"
    /\ GetRecord("GET volume", "patch_volume")

\* lines 39-43, 87
PatchVolume ==
    /\ script = "lun_grow" /\ pc = "patch_volume"
    /\ volPatch' = [size |-> volume_size]
    /\ \E outcome \in RestOutcomes :
         /\ log' = Append(log, Call("PATCH volume", outcome = "ok"))
         /\ IF outcome = "ok"
            THEN pc' = "get_lun" /\ UNCHANGED <<errorsReported, exitStatus>>
            ELSE errorsReported' = errorsReported + 1 /\ Exit(1)
    /\ UNCHANGED <<script, fault, selectorVars, size, volume_size, lun_size, lunPatch>>

\* lines 55, 45-52
GetLun ==
    /\ script = "lun_grow" /\ pc = "get_lun"
    /\ GetRecord("GET lun", "patch_lun")

\* lines 56-60, 92 and the normal end of main
PatchLun ==
    /\ script = "lun_grow" /\ pc = "patch_lun"
    /\ lunPatch' = [space |-> [size |-> lun_size]]
    /\ \E outcome \in RestOutcomes :
         /\ log' = Append(log, Call("PATCH lun", outcome = "ok"))
         /\ IF outcome = "ok"
            THEN pc' = "done" /\ exitStatus' = 0 /\ UNCHANGED errorsReported
            ELSE errorsReported' = errorsReported + 1 /\ Exit(1)
    /\ UNCHANGED <<script, fault, selectorVars, size, volume_size, lun_size, volPatch>>

(***************************************************************************)
(* ontap_cluster_svm_peering_rest.py                                       *)
(***************************************************************************)
\* what requests.post / raise_for_status do
PeerOutcomes == {"ok", "HTTPError", "ConnectionError"}

\* One POST of the handshake.  On failure the handler prints, re-raises (or
\* raises UnboundLocalError on response.text when no response was ever bound),
\* and main's except prints and returns: the process ends with status 0.
PeerCall(call, next) ==
    /\ \E outcome \in PeerOutcomes :
         /\ log' = Append(log, Call(call, outcome = "ok"))
         /\ IF outcome = "ok"
            THEN /\ pc' = next
                 /\ exitStatus' = IF next = "done" THEN 0 ELSE exitStatus
                 /\ UNCHANGED errorsReported
            ELSE /\ errorsReported' = errorsReported + 2
                 /\ pc' = "done"
                 /\ exitStatus' = 0
    /\ UNCHANGED <<script, fault, selectorVars, lunVars>>

\* line 110, then the sleep of line 111
CreateClusterPeerSource ==
    /\ script = "peering" /\ pc = "cluster_peer_source"
    /\ PeerCall("cluster_peer_source", "cluster_peer_dest")

\* CreateClusterPeerDest whose failure is printed but not re-raised
CreateClusterPeerDestSwallowed ==
    /\ script = "peering" /\ pc = "cluster_peer_dest"
    /\ \E outcome \in PeerOutcomes :
         /\ log' = Append(log, Call("cluster_peer_dest", outcome = "ok"))
         /\ errorsReported' = errorsReported + (IF outcome = "ok" THEN 0 ELSE 1)
         /\ pc' = "svm_peer_initiate"
    /\ UNCHANGED <<script, exitStatus, fault, selectorVars, lunVars>>

\* line 112, then the sleep of line 115
CreateClusterPeerDest ==
    /\ script = "peering" /\ pc = "cluster_peer_dest"
    /\ PeerCall("cluster_peer_dest", "svm_peer_initiate")

\* create_svm_peer, lines 68-86
InitiateSvmPeer ==
    /\ script = "peering" /\ pc = "svm_peer_initiate"
    /\ PeerCall("svm_peer_initiate", "svm_peer_accept")

\* create_svm_peer, lines 88-105, and line 118
AcceptSvmPeer ==
    /\ script = "peering" /\ pc = "svm_peer_accept"
    /\ PeerCall("svm_peer_accept", "done")

(***************************************************************************)
(* One run of one script.                                                  *)
(***************************************************************************)
Scripts == {"selector", "lun_grow", "peering"}

FirstStep(s) ==
    CASE s = "selector" -> "list"
      [] s = "lun_grow" -> "calculate"
      [] s = "peering"  -> "cluster_peer_source"

Init ==
    /\ script \in Scripts
    /\ pc = FirstStep(script)
    /\ exitStatus = Running
    /\ log = <<>>
    /\ errorsReported = 0
    /\ file_systems = Unset
    /\ iops_values = Unset
    /\ capacity_percent_values = Unset
    /\ max_iops = Unset
    /\ max_capacity_percent = Unset
    /\ lowest_score = Unset
    /\ selected_fs_id = None
    /\ selected_iops = Unset
    /\ selected_capacity_percent = Unset
    /\ fault = "none"
    /\ fileWrites = 0
    /\ size \in (IF script = "lun_grow" THEN Sizes ELSE {Unset})
    /\ volume_size = Unset
    /\ lun_size = Unset
    /\ volPatch = None
    /\ lunPatch = None

Next ==
    \/ ListFileSystems
    \/ CheckCandidates
    \/ QueryMetrics
    \/ SelectLeastUtilized
    \/ CheckSelected
    \/ DescribeSVM
    \/ ExtractIPs
    \/ WriteReport
    \/ CalculateSizes
    \/ GetVolume
    \/ PatchVolume
    \/ GetLun
    \/ PatchLun
    \/ CreateClusterPeerSource
    \/ CreateClusterPeerDest
    \/ InitiateSvmPeer
    \/ AcceptSvmPeer

Spec == Init /\ [][Next]_vars

(***************************************************************************)
(* Vocabulary of the properties.                                           *)
(***************************************************************************)
Exited == pc \in {"exit", "done"}

AllOk(l) == \A i \in 1..Len(l) : l[i].ok

Issued(name) == \E i \in 1..Len(log) : log[i].call = name

\* the selection loop of the selector has just ended
SelectionEnded == script = "selector" /\ pc = "check_selected"

Cands == 1..Len(file_systems)

\* the inputs of the selection, read from the candidates themselves
Throughput(i) == iops_values[i]

Utilization(i) ==
    LET fs == file_systems[i]
    IN  IF fs.StorageCapacity = 0 THEN <<0, 1>>
        ELSE RNorm(<<100 * fs.ConsumedStorageCapacity, fs.StorageCapacity>>)

\* the largest of a finite non-empty set of rationals
RMaxOf(S) == CHOOSE m \in S : \A x \in S : RLe(x, m)

MaxThroughput == RMaxOf({Throughput(i) : i \in Cands} \cup {<<1, 1>>})

MaxUtilization == RMaxOf({Utilization(i) : i \in Cands} \cup {<<1, 1>>})

\* IOPS_WEIGHT * throughput/maxThroughput + CAPACITY_WEIGHT * capacityPercent/maxCapacityPercent
CombinedScore(i) ==
    RAdd(RDiv(Throughput(i), RMul(<<2, 1>>, MaxThroughput)),
         RDiv(Utilization(i), RMul(<<2, 1>>, MaxUtilization)))

IsSelected(i) == file_systems[i].FileSystemId = selected_fs_id

\* the script took the exit of lines 111-113
FailedToDetermineExit ==
    /\ script = "selector" /\ pc = "exit" /\ fault = "none"
    /\ log # <<>> /\ log[Len(log)].call = "get_metric_statistics"

\* C1: at the end of the selection loop selected_fs_id is the id of an input
\* candidate whose combined score is at most every candidate's, and the
\* "Failed to determine the least utilized file system" exit is never taken.
C1_SelectsMinimumScore ==
    /\ SelectionEnded =>
         \E s \in Cands : /\ IsSelected(s)
                          /\ \A j \in Cands : RLe(CombinedScore(s), CombinedScore(j))
    /\ ~FailedToDetermineExit

\* C1 witness: the loop ended on a list whose second candidate alone has the
\* smallest score, and it is the one selected
C1_Witness ==
    /\ SelectionEnded /\ Len(file_systems) >= 2
    /\ IsSelected(2)
    /\ \A j \in Cands \ {2} : RLt(CombinedScore(2), CombinedScore(j))

\* C2: every candidate listed before the selected one has a strictly greater
\* score, so among candidates sharing the minimum the earliest is selected.
C2_TieSelectsEarliest ==
    SelectionEnded =>
        \A s \in Cands : IsSelected(s) =>
            \A j \in 1..(s - 1) : RLt(CombinedScore(s), CombinedScore(j))

\* C2 witness: two candidates share the minimum score, not both idle, and the
\* first of them is selected
C2_Witness ==
    /\ SelectionEnded /\ Len(file_systems) >= 2
    /\ IsSelected(1)
    /\ CombinedScore(1) = CombinedScore(2)
    /\ CombinedScore(1) # <<0, 1>>

\* C3: when the tag-filtered list is empty the script exits with status 1
\* at the guard: no metrics query, no score, no selection, no SVM or endpoint
\* lookup and no report.
C3_EmptyListFails ==
    (/\ script = "selector" /\ log # <<>> /\ log[1].ok
     /\ pc # "check_candidates" /\ file_systems = <<>>)
    => /\ pc = "exit" /\ exitStatus = 1
       /\ Len(log) = 1
       /\ lowest_score = Unset /\ max_iops = Unset
       /\ selected_fs_id = None
       /\ fileWrites = 0

\* C3 witness: the listing succeeded with no candidate and the guard has run
C3_Witness ==
    /\ script = "selector" /\ log # <<>> /\ log[1].ok
    /\ file_systems = <<>> /\ pc = "exit" /\ errorsReported = 1

\* C4: the SVM-peer initiate call follows successful cluster-peer creates on
\* source and destination, the accept call follows a successful initiate, and
\* no call follows a failed one.
C4_HandshakeOrder ==
    script = "peering" =>
      \A i \in 1..Len(log) :
        /\ log[i].call = "svm_peer_initiate" =>
             /\ \E j \in 1..(i - 1) : log[j] = Call("cluster_peer_source", TRUE)
             /\ \E j \in 1..(i - 1) : log[j] = Call("cluster_peer_dest", TRUE)
        /\ log[i].call = "svm_peer_accept" =>
             \E j \in 1..(i - 1) : log[j] = Call("svm_peer_initiate", TRUE)
        /\ ~log[i].ok => i = Len(log)

\* C4 witness: the destination cluster-peer create failed after the source
\* one succeeded, and the run is over
C4_Witness ==
    /\ script = "peering" /\ pc = "done"
    /\ log = <<Call("cluster_peer_source", TRUE), Call("cluster_peer_dest", FALSE)>>

\* C5 as claimed: after a failed remote call no further remote call is issued.
C5_FailFast == \A i \in 1..(Len(log) - 1) : log[i].ok

\* C6 as claimed: a run ends with status 0 exactly when every step succeeded;
\* no run in which a remote call failed ends with status 0.
C6_ExitStatus ==
    Exited => /\ exitStatus \in {0, 1}
              /\ exitStatus = 0 <=> (errorsReported = 0 /\ AllOk(log))

\* C7 as claimed: calculate_sizes returns the requested size unchanged and
\* (95 * size) div 100, and these are the sizes sent in the two PATCH calls.
C7_ProportionalResize ==
    /\ (script = "lun_grow" /\ pc # "calculate") =>
         volume_size = size /\ lun_size = Floor95(size)
    /\ (script = "lun_grow" /\ Issued("PATCH volume")) => volPatch = [size |-> size]
    /\ (script = "lun_grow" /\ Issued("PATCH lun")) =>
         lunPatch = [space |-> [size |-> Floor95(size)]]

\* C8 as claimed: the report is written at most once, as the last step, only
\* in runs where no step reported an error; an error exit leaves it unwritten.
C8_NoPartialOutput ==
    /\ fileWrites <= 1
    /\ fileWrites = 1 => pc = "done" /\ errorsReported = 0 /\ AllOk(log)
    /\ pc = "exit" => fileWrites = 0

\* candidate z is idle and empty while every other candidate has positive
\* throughput and positive capacity utilization
OnlyIdle(z) ==
    /\ Throughput(z) = <<0, 1>>
    /\ file_systems[z].ConsumedStorageCapacity = 0
    /\ \A j \in Cands \ {z} :
         RLt(<<0, 1>>, Throughput(j)) /\ RLt(<<0, 1>>, Utilization(j))

\* C9: a candidate with throughput 0 and consumed capacity 0, all others being
\* strictly positive in both, is the one selected, whatever its position.
C9_IdleCandidateSelected ==
    SelectionEnded => \A z \in Cands : OnlyIdle(z) => IsSelected(z)

\* C9 witness: the idle candidate is listed second and is selected
C9_Witness ==
    /\ SelectionEnded /\ Len(file_systems) >= 2
    /\ OnlyIdle(2) /\ IsSelected(2)

AllThroughputZero == \A i \in Cands : Throughput(i) = <<0, 1>>

\* C10: the divisors are at least 1 and no division by zero occurs; when every
\* throughput is 0 every normalized throughput is 0 and the selected candidate
\* is the earliest one with the smallest capacity utilization.
C10_DenominatorFloor ==
    /\ fault = "none"
    /\ SelectionEnded =>
         /\ RLe(<<1, 1>>, max_iops) /\ RLe(<<1, 1>>, max_capacity_percent)
         /\ AllThroughputZero =>
              /\ \A i \in Cands : RDiv(iops_values[i], max_iops) = <<0, 1>>
              /\ \E s \in Cands :
                   /\ IsSelected(s)
                   /\ \A j \in Cands : RLe(Utilization(s), Utilization(j))
                   /\ \A j \in 1..(s - 1) : RLt(Utilization(s), Utilization(j))

\* C10 witness: every throughput is 0, utilizations differ, and the second
\* candidate is selected on capacity alone
C10_Witness ==
    /\ SelectionEnded /\ Len(file_systems) >= 2
    /\ AllThroughputZero
    /\ max_iops = <<1, 1>>
    /\ IsSelected(2)
    /\ RLt(Utilization(2), Utilization(1))

====
